---- MODULE Spec2Model ----
(***************************************************************************)
(* Funding curve construction (src/src/202507_work.py): year_fraction,     *)
(* FundingCurveBuilder (__init__, build, total_rate) and                   *)
(* DiscountFactorService (__init__, get_df).                               *)
(*                                                                         *)
(* Numbers.  A Python float is modelled as an extended rational <<n, d>>:  *)
(* d > 0 is the reduced fraction n/d, <<1, 0>> is +inf, <<-1, 0>> is -inf  *)
(* and <<0, 0>> is NaN, with the IEEE-754 rules numpy follows for them     *)
(* (x/0 = +-inf, 0/0 = NaN, inf*0 = NaN, NaN compares false).  Rounding of *)
(* binary floating point is not modelled: arithmetic is exact.             *)
(* np.exp is strictly increasing with exp(0) = 1, so a discount factor     *)
(* exp(e) is carried as its exponent e.                                    *)
(***************************************************************************)
EXTENDS Integers, Sequences, FiniteSets, TLC

\* ------------------------------------------------------------------ bounds
\* most base points in an ois_points mapping
MaxPoints == 2
\* direct year_fraction calls take dates of months 1 .. MaxMonth
MaxMonth == 3
\* total_rate is queried at k/4 years, k in -MaxT .. MaxT, and at the knots
MaxT == 1

\* --------------------------------------------------------- float arithmetic
Abs(n) == IF n < 0 THEN -n ELSE n

Sign(n) == IF n < 0 THEN -1 ELSE IF n > 0 THEN 1 ELSE 0

RECURSIVE Gcd(_, _)
Gcd(a, b) == IF b = 0 THEN a ELSE Gcd(b, a % b)

NaN == <<0, 0>>

PosInf == <<1, 0>>

Zero == <<0, 1>>

IsNaN(a) == a = NaN

IsFinite(a) == a[2] # 0

\* the canonical form of the fraction n/d
RNorm(n, d) ==
    IF d = 0 THEN <<Sign(n), 0>>
    ELSE LET g == Gcd(Abs(n), Abs(d))
             s == Sign(d)
         IN  <<(s * n) \div g, (s * d) \div g>>

RNeg(a) == <<-a[1], a[2]>>

RAdd(a, b) ==
    IF a[2] = 0 /\ b[2] = 0
    THEN IF a = b THEN a ELSE NaN
    ELSE RNorm(a[1] * b[2] + b[1] * a[2], a[2] * b[2])

RSub(a, b) == RAdd(a, RNeg(b))

RMul(a, b) ==
    IF IsNaN(a) \/ IsNaN(b) THEN NaN
    ELSE RNorm(a[1] * b[1], a[2] * b[2])

\* a / b as a * (1/b): 1/0 = +inf, 1/inf = 0
RDiv(a, b) ==
    IF IsNaN(a) \/ IsNaN(b) THEN NaN
    ELSE RMul(a, RNorm(b[2], b[1]))

RLt(a, b) ==
    /\ ~IsNaN(a)
    /\ ~IsNaN(b)
    /\ a # b
    /\ a[1] * b[2] <= b[1] * a[2]
    /\ (a[2] = 0 /\ b[2] = 0 => a[1] < b[1])

RLe(a, b) == ~IsNaN(a) /\ ~IsNaN(b) /\ (a = b \/ RLt(a, b))

\* ------------------------------------------------------------------- dates
\* a datetime.date is <<year, month, day>>
IsLeap(y) == y % 4 = 0 /\ (y % 100 # 0 \/ y % 400 = 0)

DaysInMonth(y, m) ==
    IF m = 2 THEN (IF IsLeap(y) THEN 29 ELSE 28)
    ELSE IF m \in {4, 6, 9, 11} THEN 30 ELSE 31

RECURSIVE DaysBeforeMonth(_, _)
DaysBeforeMonth(y, m) ==
    IF m = 1 THEN 0 ELSE DaysBeforeMonth(y, m - 1) + DaysInMonth(y, m - 1)

DaysBeforeYear(y) ==
    (y - 1) * 365 + ((y - 1) \div 4) - ((y - 1) \div 100) + ((y - 1) \div 400)

\* date.toordinal()
Ordinal(dt) == DaysBeforeYear(dt[1]) + DaysBeforeMonth(dt[1], dt[2]) + dt[3]

\* (end - start).days
DaysBetween(start, end) == Ordinal(end) - Ordinal(start)

\* date.__lt__
DateLess(a, b) == Ordinal(a) < Ordinal(b)

IsDate(dt) == dt[2] \in 1..12 /\ dt[3] \in 1..DaysInMonth(dt[1], dt[2])

Min(a, b) == IF a < b THEN a ELSE b

\* ----------------------------------------------------------- year_fraction
\* the outcome of a call: a returned float, or a raised exception
Return(v) == [exc |-> "none", val |-> v]

Raise(e) == [exc |-> e, val |-> NaN]

\* year_fraction with the day difference taken as start - end
year_fraction_swapped(start, end, convention) ==
    LET days == DaysBetween(end, start)
    IN  IF convention = "ACT/365" THEN Return(RNorm(days, 365))
        ELSE IF convention = "ACT/360" THEN Return(RNorm(days, 360))
        ELSE IF convention = "30/360" THEN
            LET D1 == Min(start[3], 30)
                D2 == IF start[3] < 30 THEN end[3] ELSE Min(end[3], 30)
            IN  Return(RNorm((start[1] - end[1]) * 360 + (start[2] - end[2]) * 30
                             + (D1 - D2), 360))
        ELSE Raise("ValueError")

\* year_fraction with ACT/365 as the fallback of an unknown convention
year_fraction_fallback(start, end, convention) ==
    LET days == DaysBetween(start, end)
    IN  IF convention = "ACT/360" THEN Return(RNorm(days, 360))
        ELSE IF convention = "30/360" THEN
            LET D1 == Min(start[3], 30)
                D2 == IF start[3] < 30 THEN end[3] ELSE Min(end[3], 30)
            IN  Return(RNorm((end[1] - start[1]) * 360 + (end[2] - start[2]) * 30
                             + (D2 - D1), 360))
        ELSE Return(RNorm(days, 365))

year_fraction(start, end, convention) ==
    LET days == DaysBetween(start, end)
    IN  IF convention = "ACT/365" THEN Return(RNorm(days, 365))
        ELSE IF convention = "ACT/360" THEN Return(RNorm(days, 360))
        ELSE IF convention = "30/360" THEN
            LET d1 == start[3]
                d2 == end[3]
                m1 == start[2]
                m2 == end[2]
                y1 == start[1]
                y2 == end[1]
                D1 == Min(d1, 30)
                D2 == IF d1 < 30 THEN d2 ELSE Min(d2, 30)
            IN  Return(RNorm((y2 - y1) * 360 + (m2 - m1) * 30 + (D2 - D1), 360))
        ELSE Raise("ValueError")

\* ------------------------------------------------------------- input sets
Conventions == {"ACT/365", "ACT/360", "30/360"}

\* a convention string outside the supported set
OtherConventions == {"ACT/ACT"}

ValuationDates == {<<2024, 1, 15>>, <<2024, 1, 31>>}

\* the dates quoted points may carry
PointDates == {<<2024, 1, 31>>, <<2024, 2, 1>>, <<2025, 1, 15>>}

\* the dates get_df is asked about
TargetDates ==
    ValuationDates \cup {<<2023, 12, 31>>, <<2024, 1, 30>>, <<2024, 2, 1>>}

\* a rate of k percent
Percent(k) == RNorm(k, 100)

Rates == {Percent(0), Percent(1)}

Spreads == {Percent(1)}

\* the dates direct year_fraction calls are made with
CalendarDates ==
    {dt \in {2023, 2024} \X (1..MaxMonth) \X {1, 15, 28, 29, 30, 31} : IsDate(dt)}

QueryTs == {RNorm(k, 4) : k \in (-MaxT)..MaxT}

Range(s) == {s[i] : i \in 1..Len(s)}

\* a dict literal as its items in insertion order: distinct keys
Mappings(keys, values, maxLen) ==
    {m \in UNION {[1..n -> keys \X values] : n \in 0..maxLen} :
        \A i, j \in 1..Len(m) : i # j => m[i][1] # m[j][1]}

Keys(m) == [i \in 1..Len(m) |-> m[i][1]]

\* m[key]
Lookup(m, key) == (CHOOSE i \in 1..Len(m) : m[i][1] = key)

\* ------------------------------------------------- the interpolation primitive
\* scipy.interpolate.interp1d(x, y, kind='linear', fill_value='extrapolate',
\* assume_sorted=True).  Its constructor raises ValueError when the axis has
\* fewer than minval entries, and minval is 1 for kind='linear'.
MinEntries == 1

NoInterp == [set |-> FALSE, x |-> <<>>, y |-> <<>>]

\* a constructor without the minimum-entries check
interp1d_never_raises(x) == FALSE

interp1d_raises(x) == Len(x) < MinEntries

interp1d(x, y) == [set |-> TRUE, x |-> x, y |-> y]

\* x[i] for a Python index i (0-based, negative counts from the end); an index
\* outside the array is numpy's IndexError, which NaN stands for here
PyIndex(x, i) ==
    LET k == IF i < 0 THEN Len(x) + i + 1 ELSE i + 1
    IN  IF k \in 1..Len(x) THEN x[k] ELSE NaN

\* numpy.searchsorted(x, v), side='left': binary search
RECURSIVE BinSearch(_, _, _, _)
BinSearch(x, v, lo, hi) ==
    IF lo >= hi THEN lo
    ELSE LET mid == (lo + hi) \div 2
         IN  IF RLt(x[mid + 1], v) THEN BinSearch(x, v, mid + 1, hi)
             ELSE BinSearch(x, v, lo, mid)

searchsorted(x, v) == BinSearch(x, v, 0, Len(x))

\* ndarray.clip(amin, amax) = minimum(maximum(a, amin), amax)
clip(a, amin, amax) == Min(IF a < amin THEN amin ELSE a, amax)

\* a linear interpolant that holds the end values outside the axis (numpy.interp)
call_linear_held(f, x_new) ==
    LET first == f.x[1]
        last == f.x[Len(f.x)]
        x == IF RLt(x_new, first) THEN first
             ELSE IF RLt(last, x_new) THEN last ELSE x_new
        idx == clip(searchsorted(f.x, x), 1, Len(f.x) - 1)
        x_lo == PyIndex(f.x, idx - 1)
        x_hi == PyIndex(f.x, idx)
        y_lo == PyIndex(f.y, idx - 1)
        y_hi == PyIndex(f.y, idx)
    IN  RAdd(RMul(RDiv(RSub(y_hi, y_lo), RSub(x_hi, x_lo)), RSub(x, x_lo)), y_lo)

\* interp1d._call_linear followed by the absence of any bounds check
\* (fill_value='extrapolate')
call_linear(f, x_new) ==
    LET idx == clip(searchsorted(f.x, x_new), 1, Len(f.x) - 1)
        lo == idx - 1
        hi == idx
        x_lo == PyIndex(f.x, lo)
        x_hi == PyIndex(f.x, hi)
        y_lo == PyIndex(f.y, lo)
        y_hi == PyIndex(f.y, hi)
        slope == RDiv(RSub(y_hi, y_lo), RSub(x_hi, x_lo))
    IN  RAdd(RMul(slope, RSub(x_new, x_lo)), y_lo)

\* --------------------------------------------------------------------- state
VARIABLES
    pc,             \* "start", "constructed", "built" or "failed"
    ois_points,     \* the ois_points argument, items in insertion order
    cs_points,      \* the cs_points argument: [none, items]
    self,           \* the FundingCurveBuilder's attributes
    svc,            \* the DiscountFactorService's attributes
    ret,            \* the outcome of the last call
    interp1d_axes,  \* the axis lengths interp1d has been invoked on
    returned,       \* the rates of the function build() first returned
    yf              \* a direct year_fraction call: its arguments and outcome

vars ==
    <<pc, ois_points, cs_points, self, svc, ret, interp1d_axes, returned, yf>>

NoDate == <<0, 0, 0>>

NoArg == [none |-> TRUE, items |-> <<>>]

NoBuilder ==
    [valuation_date |-> NoDate, dc |-> "", ois_dates |-> <<>>,
     ois_tenors |-> <<>>, ois_rates |-> <<>>, ois_interp |-> NoInterp,
     cs_dates |-> <<>>, cs_tenors |-> <<>>, cs_rates |-> <<>>,
     cs_present |-> FALSE, cs_interp |-> NoInterp, total_interp |-> FALSE]

NoService == [set |-> FALSE, valuation_date |-> NoDate, dc |-> ""]

Outcome(op, exc, origin, date, t, r, val) ==
    [op |-> op, exc |-> exc, origin |-> origin, date |-> date, t |-> t,
     r |-> r, val |-> val]

NoCall == Outcome("none", "none", "", NoDate, NaN, NaN, NaN)

NoYf == [start |-> NoDate, end |-> NoDate, convention |-> "", done |-> FALSE,
         out |-> Raise("none")]

Init ==
    /\ pc = "start"
    /\ ois_points = <<>>
    /\ cs_points = NoArg
    /\ self = NoBuilder
    /\ svc = NoService
    /\ ret = NoCall
    /\ interp1d_axes = {}
    /\ returned = [t \in {} |-> NaN]
    /\ yf = NoYf

\* ----------------------------------------------------- FundingCurveBuilder
\* points.keys() left in insertion order
UnsortedDates(points) == Keys(points)

\* sorted(points.keys())
SortedDates(points) == SortSeq(Keys(points), DateLess)

\* [year_fraction(valuation_date, d, dc) for d in dates]
Tenors(valuation_date, dates, convention) ==
    [i \in 1..Len(dates) |-> year_fraction(valuation_date, dates[i], convention)]

\* [points[d] for d in dates]
RatesOf(points, dates) ==
    [i \in 1..Len(dates) |-> points[Lookup(points, dates[i])][2]]

AnyRaises(outcomes) == \E i \in 1..Len(outcomes) : outcomes[i].exc # "none"

Values(outcomes) == [i \in 1..Len(outcomes) |-> outcomes[i].val]

\* `if cs_points:` is false for None and for an empty dict
Truthy(arg) == ~arg.none /\ Len(arg.items) > 0

\* FundingCurveBuilder.__init__
Construct(points, valuation_date, convention, cs) ==
    LET odates == SortedDates(points)
        otenors == Tenors(valuation_date, odates, convention)
        cdates == SortedDates(cs.items)
        ctenors == Tenors(valuation_date, cdates, convention)
    IN  /\ pc = "start"
        /\ ois_points' = points
        /\ cs_points' = cs
        /\ IF AnyRaises(otenors) \/ (Truthy(cs) /\ AnyRaises(ctenors))
           THEN /\ pc' = "failed"
                /\ self' = [NoBuilder EXCEPT !.valuation_date = valuation_date,
                                             !.dc = convention,
                                             !.ois_dates = odates]
                /\ ret' = Outcome("__init__", "ValueError", "year_fraction",
                                  NoDate, NaN, NaN, NaN)
           ELSE /\ pc' = "constructed"
                /\ self' =
                     [valuation_date |-> valuation_date,
                      dc |-> convention,
                      ois_dates |-> odates,
                      ois_tenors |-> Values(otenors),
                      ois_rates |-> RatesOf(points, odates),
                      ois_interp |-> NoInterp,
                      cs_dates |-> IF Truthy(cs) THEN cdates ELSE <<>>,
                      cs_tenors |-> IF Truthy(cs) THEN Values(ctenors) ELSE <<>>,
                      cs_rates |-> IF Truthy(cs) THEN RatesOf(cs.items, cdates)
                                   ELSE <<>>,
                      cs_present |-> Truthy(cs),
                      cs_interp |-> NoInterp,
                      total_interp |-> FALSE]
                /\ ret' = Outcome("__init__", "none", "", NoDate, NaN, NaN, NaN)
        /\ UNCHANGED <<svc, interp1d_axes, returned, yf>>

\* a total_rate that leaves the spread out
total_rate_base_only(b, t) == call_linear(b.ois_interp, t)

\* the closure total_rate(t) of build(), reading the builder b
total_rate(b, t) ==
    LET base == call_linear(b.ois_interp, t)
        cs == IF b.cs_interp.set THEN call_linear(b.cs_interp, t) ELSE Zero
    IN  RAdd(base, cs)

\* the points total_rate is queried at: a grid and the builder's own knots
QueryPoints(b) == QueryTs \cup Range(b.ois_tenors)

Reverse(x) == [i \in 1..Len(x) |-> x[Len(x) + 1 - i]]

\* a build() that reverses self.ois_rates in place before interpolating
Built_reversing(b) ==
    [b EXCEPT !.ois_rates = Reverse(b.ois_rates),
              !.ois_interp = interp1d(b.ois_tenors, Reverse(b.ois_rates)),
              !.cs_interp = IF b.cs_present
                            THEN interp1d(b.cs_tenors, b.cs_rates)
                            ELSE b.cs_interp,
              !.total_interp = TRUE]

\* the builder after build() has run to its end
Built(b) ==
    [b EXCEPT !.ois_interp = interp1d(b.ois_tenors, b.ois_rates),
              !.cs_interp = IF b.cs_present
                            THEN interp1d(b.cs_tenors, b.cs_rates)
                            ELSE b.cs_interp,
              !.total_interp = TRUE]

\* FundingCurveBuilder.build.  A spread axis, when there is one, comes from a
\* non-empty mapping, so only the base axis can be too short for interp1d.
Build ==
    /\ pc \in {"constructed", "built"}
    /\ IF interp1d_raises(self.ois_tenors)
       THEN /\ pc' = "failed"
            /\ self' = self
            /\ interp1d_axes' = interp1d_axes \cup {Len(self.ois_tenors)}
            /\ ret' = Outcome("build", "ValueError", "interp1d",
                              NoDate, NaN, NaN, NaN)
            /\ returned' = returned
       ELSE /\ pc' = "built"
            /\ self' = Built(self)
            /\ interp1d_axes' = interp1d_axes \cup {Len(self.ois_tenors)}
                   \cup (IF self.cs_present THEN {Len(self.cs_tenors)} ELSE {})
            /\ ret' = Outcome("build", "none", "", NoDate, NaN, NaN, NaN)
            /\ returned' = IF pc = "built" THEN returned
                           ELSE [t \in QueryPoints(self) |->
                                    total_rate(Built(self), t)]
    /\ UNCHANGED <<ois_points, cs_points, svc, yf>>

\* a call of the returned function, total_interp(t)
TotalRate(t) ==
    /\ pc = "built"
    /\ ret' = Outcome("total_rate", "none", "", NoDate, t, total_rate(self, t),
                      total_rate(self, t))
    /\ UNCHANGED <<pc, ois_points, cs_points, self, svc, interp1d_axes, returned, yf>>

\* --------------------------------------------------- DiscountFactorService
\* DiscountFactorService.__init__(interp, valuation_date, dc), interp being
\* the function build() returned
NewService(valuation_date, convention) ==
    /\ pc = "built"
    /\ ~svc.set
    /\ svc' = [set |-> TRUE, valuation_date |-> valuation_date, dc |-> convention]
    /\ UNCHANGED <<pc, ois_points, cs_points, self, ret, interp1d_axes, returned, yf>>

\* a get_df that floors the year fraction at 0
get_df_floored(s, b, target_date) ==
    LET frac == year_fraction(s.valuation_date, target_date, s.dc)
        t == IF RLt(frac.val, Zero) THEN Zero ELSE frac.val
        r == total_rate(b, t)
    IN  IF frac.exc # "none"
        THEN Outcome("get_df", frac.exc, "year_fraction", target_date,
                     NaN, NaN, NaN)
        ELSE Outcome("get_df", "none", "", target_date, t, r, RMul(RNeg(r), t))

\* DiscountFactorService.get_df: the exponent e of the returned np.exp(e)
get_df(s, b, target_date) ==
    LET frac == year_fraction(s.valuation_date, target_date, s.dc)
        t == frac.val
        r == total_rate(b, t)
    IN  IF frac.exc # "none"
        THEN Outcome("get_df", frac.exc, "year_fraction", target_date,
                     NaN, NaN, NaN)
        ELSE Outcome("get_df", "none", "", target_date, t, r, RMul(RNeg(r), t))

GetDf(target_date) ==
    /\ pc = "built"
    /\ svc.set
    /\ ret' = get_df(svc, self, target_date)
    /\ UNCHANGED <<pc, ois_points, cs_points, self, svc, interp1d_axes, returned, yf>>

\* ------------------------------------------------------------ specification
\* the cs_points arguments tried with a base mapping: None, an empty dict, one
\* spread on every base date, and a single quoted spread
Arguments(points) ==
    {NoArg, [none |-> FALSE, items |-> <<>>]}
    \cup {[none |-> FALSE,
           items |-> [i \in 1..Len(points) |-> <<points[i][1], s>>]] :
             s \in Spreads}
    \cup {[none |-> FALSE, items |-> <<<<d, s>>>>] :
             d \in PointDates, s \in Spreads}

Next ==
    \/ /\ pc = "start"
       /\ \E points \in Mappings(PointDates, Rates, MaxPoints),
             valuation_date \in ValuationDates,
             convention \in Conventions \cup OtherConventions :
               \E cs \in Arguments(points) :
                   Construct(points, valuation_date, convention, cs)
    \/ Build
    \/ /\ pc = "built"
       /\ \E t \in QueryPoints(self) : TotalRate(t)
    \/ /\ pc = "built"
       /\ ~svc.set
       /\ \E convention \in {self.dc} \cup OtherConventions :
               NewService(self.valuation_date, convention)
    \/ /\ pc = "built"
       /\ svc.set
       /\ \E target_date \in TargetDates : GetDf(target_date)

Spec == Init /\ [][Next]_vars

\* ------------------------------------------- year_fraction called directly
InitYF ==
    /\ pc = "start"
    /\ ois_points = <<>>
    /\ cs_points = NoArg
    /\ self = NoBuilder
    /\ svc = NoService
    /\ ret = NoCall
    /\ interp1d_axes = {}
    /\ returned = [t \in {} |-> NaN]
    /\ \E start \in CalendarDates, end \in CalendarDates,
          convention \in Conventions \cup OtherConventions :
            yf = [NoYf EXCEPT !.start = start, !.end = end,
                              !.convention = convention]

YearFractionCall ==
    /\ ~yf.done
    /\ yf' = [yf EXCEPT !.done = TRUE,
                        !.out = year_fraction(yf.start, yf.end, yf.convention)]
    /\ UNCHANGED <<pc, ois_points, cs_points, self, svc, ret, interp1d_axes,
                   returned>>

NextYF == YearFractionCall

SpecYF == InitYF /\ [][NextYF]_vars

\* ===================================================================== claims
NoSpread == ~Truthy(cs_points)

Supported(convention) == convention \in Conventions

\* the year fraction the builder gives a date
TenorOf(d) == year_fraction(self.valuation_date, d, self.dc).val

StrictlyIncreasing(x) == \A i, j \in 1..Len(x) : i < j => RLt(x[i], x[j])

NonDecreasing(x) == \A i, j \in 1..Len(x) : i < j => RLe(x[i], x[j])

\* the line through (t0, r0) and (t1, r1) at t
LineAt(t0, r0, t1, r1, t) ==
    RAdd(r0, RDiv(RMul(RSub(r1, r0), RSub(t, t0)), RSub(t1, t0)))

\* the two base points of a two-point mapping, the one of the smaller year
\* fraction first, each as <<year fraction, rate>>
TwoPoints ==
    LET a == <<TenorOf(ois_points[1][1]), ois_points[1][2]>>
        b == <<TenorOf(ois_points[2][1]), ois_points[2][2]>>
    IN  IF RLt(a[1], b[1]) THEN <<a, b>> ELSE <<b, a>>

C1_Case ==
    /\ pc = "built"
    /\ Len(ois_points) = 2
    /\ NoSpread
    /\ RLt(TwoPoints[1][1], TwoPoints[2][1])
    /\ ret.op = "total_rate"

\* C1: a curve built from two base points with year fractions t0 < t1 and no
\* spread returns, at every t, inside or outside [t0, t1], the value of the
\* line r0 + (r1 - r0)*(t - t0)/(t1 - t0), whatever the insertion order.
C1_TwoPointLine ==
    C1_Case =>
        ret.val = LineAt(TwoPoints[1][1], TwoPoints[1][2],
                         TwoPoints[2][1], TwoPoints[2][2], ret.t)

\* two points inserted later date first, unequal rates, queried left of t0
C1_Witness ==
    /\ C1_Case
    /\ DateLess(ois_points[2][1], ois_points[1][1])
    /\ ois_points[1][2] # ois_points[2][2]
    /\ RLt(ret.t, TwoPoints[1][1])
    /\ IsFinite(ret.val)

\* C7 as stated: the year-fraction axes are strictly increasing, two entries
\* being equal only if their dates coincide.
C7_StrictAxis ==
    pc \in {"constructed", "built"} =>
        /\ StrictlyIncreasing(self.ois_tenors)
        /\ StrictlyIncreasing(self.cs_tenors)

\* C7 amended: the axes are non-decreasing, and strictly increasing under
\* ACT/365 and ACT/360; under 30/360 two distinct dates can share a year
\* fraction.
C7_AxisOrdered ==
    pc \in {"constructed", "built"} =>
        /\ NonDecreasing(self.ois_tenors)
        /\ NonDecreasing(self.cs_tenors)
        /\ self.dc \in {"ACT/365", "ACT/360"} =>
              /\ StrictlyIncreasing(self.ois_tenors)
              /\ StrictlyIncreasing(self.cs_tenors)

\* two points inserted later date first, under each kind of convention
C7_Witness ==
    /\ pc = "constructed"
    /\ Len(ois_points) = 2
    /\ DateLess(ois_points[2][1], ois_points[1][1])
    /\ self.dc = "30/360"
    /\ Len(self.cs_tenors) = 2
    /\ RLt(self.ois_tenors[1], self.ois_tenors[2])

\* the spread mapping assigns s to every base date, and to no other date
SameSpreadOnBase(s) ==
    /\ ~cs_points.none
    /\ Len(cs_points.items) = Len(ois_points)
    /\ \A i \in 1..Len(ois_points) :
          \E j \in 1..Len(cs_points.items) :
              cs_points.items[j] = <<ois_points[i][1], s>>

\* at a base knot the composed rate is that knot's base rate plus s
ShiftedAtKnots(s) ==
    \A i \in 1..Len(ois_points) :
        TenorOf(ois_points[i][1]) = ret.t =>
            ret.val = RAdd(ois_points[i][2], s)

C4_Case(s) ==
    /\ pc = "built"
    /\ ret.op = "total_rate"
    /\ Len(ois_points) >= 2
    /\ SameSpreadOnBase(s)

EmptyBase == pc # "start" /\ Len(ois_points) = 0

\* C3 as stated: with an empty base mapping construction fails before the
\* interpolation primitive is invoked on the empty axis, and no composed
\* function is returned.
C3_FailsBeforeInterp ==
    EmptyBase =>
        /\ 0 \notin interp1d_axes
        /\ ~self.total_interp
        /\ ret.op = "build" => ret.exc # "none"

\* C3 amended: with an empty base mapping __init__ makes no emptiness check;
\* build() invokes interp1d on the empty axis and fails with the ValueError
\* interp1d raises; no composed function is returned.
C3_FailsInInterp ==
    EmptyBase =>
        /\ ~self.total_interp
        /\ pc # "built"
        /\ DOMAIN returned = {}
        /\ ret.op = "__init__" /\ ret.exc # "none" =>
              Truthy(cs_points) /\ ~Supported(self.dc)
        /\ ret.op = "build" =>
              /\ pc = "failed"
              /\ ret.exc = "ValueError"
              /\ ret.origin = "interp1d"
              /\ 0 \in interp1d_axes

\* build() has been called on an empty base axis
C3_Witness ==
    /\ EmptyBase
    /\ ret.op = "build"
    /\ pc = "failed"
    /\ Supported(self.dc)

\* C9: under a convention outside the supported set year_fraction raises and
\* returns no value, and the error leaves __init__ (when a point is supplied)
\* and get_df.
C9_InvalidConvention ==
    /\ (ret.op = "__init__" /\ ~Supported(self.dc)
          /\ (Len(ois_points) > 0 \/ Truthy(cs_points))) =>
           /\ pc = "failed"
           /\ ret.exc = "ValueError"
           /\ ret.origin = "year_fraction"
           /\ ~self.total_interp
    /\ (ret.op = "get_df" /\ ~Supported(svc.dc)) =>
           /\ ret.exc = "ValueError"
           /\ ret.origin = "year_fraction"
           /\ IsNaN(ret.val)

\* get_df called on a service of an unsupported convention
C9_Witness ==
    /\ ret.op = "get_df"
    /\ ~Supported(svc.dc)
    /\ Supported(self.dc)
    /\ ret.exc = "ValueError"

PastTarget ==
    /\ ret.op = "get_df"
    /\ ret.exc = "none"
    /\ DateLess(ret.date, svc.valuation_date)

\* C6 as stated, for the calls whose composed rate is a finite number: for a
\* target date before the valuation date get_df computes t < 0 and returns a
\* discount factor exp(e) > 1, that is e > 0.
C6_PastAboveOne ==
    (PastTarget /\ IsFinite(ret.r)) => RLt(ret.t, Zero) /\ RLt(Zero, ret.val)

\* C6 amended: for a target date before the valuation date get_df computes
\* t <= 0 (t < 0 under ACT/365 and ACT/360) and returns exp(-r*t) unclamped,
\* which exceeds 1 exactly when t < 0 and the composed rate r at t is positive.
C6_PastUnclamped ==
    PastTarget =>
        /\ RLe(ret.t, Zero)
        /\ svc.dc \in {"ACT/365", "ACT/360"} => RLt(ret.t, Zero)
        /\ ret.t = year_fraction(svc.valuation_date, ret.date, svc.dc).val
        /\ ret.val = RMul(RNeg(ret.r), ret.t)
        /\ RLt(Zero, ret.val) <=> (RLt(ret.t, Zero) /\ RLt(Zero, ret.r))

\* a past target with a positive rate: t < 0 and a discount factor above 1
C6_Witness ==
    /\ PastTarget
    /\ RLt(ret.t, Zero)
    /\ RLt(Zero, ret.r)
    /\ IsFinite(ret.r)
    /\ RLt(Zero, ret.val)

\* C2: a single base point (date, r) and no spread builds a flat curve: build()
\* succeeds and get_df(d) = exp(-r * year_fraction(valuation_date, d)).
C2_SinglePointFlat ==
    (Len(ois_points) = 1 /\ NoSpread) =>
        /\ ret.op = "build" => ret.exc = "none"
        /\ (ret.op = "get_df" /\ ret.exc = "none") =>
              ret.val = RMul(RNeg(ois_points[1][2]),
                             year_fraction(svc.valuation_date, ret.date,
                                           svc.dc).val)

\* C5: with the builder's valuation date and convention, get_df at the
\* valuation date returns exp(0) = 1.
C5_UnitAtValuation ==
    (/\ ret.op = "get_df"
     /\ svc.valuation_date = self.valuation_date
     /\ svc.dc = self.dc
     /\ ret.date = svc.valuation_date) =>
        ret.exc = "none" /\ ret.val = Zero

\* a call of total_rate or get_df
Evaluation == ret' # ret /\ ret'.op \in {"total_rate", "get_df"}

\* C10: after build() has returned, every later call of the returned function
\* gives the rate it gave at return, through total_rate and through get_df,
\* also after build() is called again, and a total_rate or get_df call leaves
\* the builder's and the service's attributes unchanged.
C10_PureAfterBuild ==
    /\ [](ret.op = "total_rate" => ret.val = returned[ret.t])
    /\ []((ret.op = "get_df" /\ ret.exc = "none" /\ ret.t \in DOMAIN returned)
            => ret.r = returned[ret.t])
    /\ [][Evaluation => (self' = self /\ svc' = svc /\ returned' = returned)]_vars

\* the returned function called on a two-point curve with a spread, once a
\* service exists
C10_Witness ==
    /\ pc = "built"
    /\ svc.set
    /\ ret.op = "total_rate"
    /\ Len(ois_points) = 2
    /\ ois_points[1][2] # ois_points[2][2]
    /\ self.cs_present
    /\ IsFinite(ret.val)

BeforeStart == yf.done /\ Supported(yf.convention) /\ DateLess(yf.end, yf.start)

\* C8 as stated: for every supported convention and end before start,
\* year_fraction is strictly negative.
C8_NegativeBeforeStart ==
    BeforeStart => yf.out.exc = "none" /\ RLt(yf.out.val, Zero)

\* C8 amended: for end before start year_fraction is never clamped to a
\* positive value: it is strictly negative under ACT/365 and ACT/360, and
\* negative or zero under 30/360.
C8_NotPositiveBeforeStart ==
    BeforeStart =>
        /\ yf.out.exc = "none"
        /\ RLe(yf.out.val, Zero)
        /\ yf.convention \in {"ACT/365", "ACT/360"} => RLt(yf.out.val, Zero)

\* a 30/360 call with end before start and a negative result
C8_Witness ==
    /\ BeforeStart
    /\ yf.convention = "30/360"
    /\ RLt(yf.out.val, Zero)

====
